---- MODULE Spec2Model ----
(***************************************************************************)
(* Model of shein_stock_bot.py: the snapshot cache (seen.json), the alert  *)
(* policy of build_alerts, the command-triggered scan check_now and the    *)
(* main loop that polls Telegram updates and runs the periodic auto-scan.  *)
(***************************************************************************)
EXTENDS Integers, Sequences, FiniteSets, TLC

\* ---------------------------------------------------------------- bounds
MaxCards == 2        \* product cards found on the page by one scrape
MaxUpdates == 1      \* updates returned by one getUpdates poll
MaxClock == 32       \* the wall clock (minutes) stops advancing here
MaxElements == 3     \* product cards handed to the card loop checked on its own

\* ------------------------------------------------------------- constants
SCAN_INTERVAL_MIN == 15
ALERT_CAP == 50

SHEIN_URL == "base"
Modes == {"new_only", "restock", "any_instock"}
Hrefs == {"", "u1"}          \* "" stands for a missing href (None)
Titles == {"", "T"}          \* "" stands for no usable title (None)
Cards == [href : Hrefs, title : Titles, oos : BOOLEAN]
UpdateKinds == {"cb_check", "cb_refresh", "cb_unknown",
                "msg_start", "msg_check", "msg_refresh", "msg_other"}
FROM_CHAT == "user"

\* Sequences over S of length 0..n
SeqsUpTo(S, n) == UNION {[1..k -> S] : k \in 0..n}

EmptyMap == [x \in {} |-> TRUE]

Ids(items) == {items[i].id : i \in 1..Len(items)}

Min(a, b) == IF a < b THEN a ELSE b

\* ------------------------------------------------------------ scrape_once
\* pid = (href or (title or "")).strip()[:300]; the modelled strings are
\* already stripped and shorter than 300 characters.
Pid(card) == IF card.href # "" THEN card.href ELSE card.title

MakeItem(card) ==
  [id    |-> Pid(card),
   title |-> IF card.title # "" THEN card.title ELSE "Unknown item",
   href  |-> IF card.href # "" THEN card.href ELSE SHEIN_URL,
   oos   |-> card.oos]

\* mutant: the seen_ids test is missing
RECURSIVE ParseCards_NoDedup(_, _, _)
ParseCards_NoDedup(cards, seen_ids, results) ==
  IF cards = <<>> THEN results
  ELSE LET el  == Head(cards)
           pid == Pid(el)
       IN IF pid # ""
          THEN ParseCards_NoDedup(Tail(cards), seen_ids \cup {pid},
                                  Append(results, MakeItem(el)))
          ELSE ParseCards_NoDedup(Tail(cards), seen_ids, results)

RECURSIVE ParseCards(_, _, _)
ParseCards(cards, seen_ids, results) ==
  IF cards = <<>> THEN results
  ELSE LET el  == Head(cards)
           pid == Pid(el)
       IN IF pid # "" /\ pid \notin seen_ids
          THEN ParseCards(Tail(cards), seen_ids \cup {pid},
                          Append(results, MakeItem(el)))
          ELSE ParseCards(Tail(cards), seen_ids, results)

\* Results scrape_once can return: the parse of the cards found, where an
\* access-denied page or an error inside the try block gives no cards.
ScrapeResults == {ParseCards(cs, {}, <<>>) : cs \in SeqsUpTo(Cards, MaxCards)}

\* ------------------------------------------------------------------ cache
\* The file seen.json: absent, holding a complete JSON snapshot, or holding
\* a truncated write.
AbsentFile == [state |-> "absent", data |-> EmptyMap]
PartialFile == [state |-> "partial", data |-> EmptyMap]
OkFile(cache) == [state |-> "ok", data |-> cache]

load_cache(file) == IF file.state = "ok" THEN file.data ELSE EmptyMap

\* Outcomes of save_cache(cache) on the file: the complete write, or an
\* OSError that leaves the file as it was or truncated.
SaveOk(cache) == OkFile(cache)
SaveFailures(file) == {file, PartialFile}

\* ----------------------------------------------------------- build_alerts
CacheEntry(it) == [oos |-> it.oos, title |-> it.title, href |-> it.href]

\* mutant: the assignment cache[it["id"]] = ... is missing
CachePut_Dropped(cache, it) == cache

CachePut(cache, it) ==
  [k \in DOMAIN cache \cup {it.id} |->
     IF k = it.id THEN CacheEntry(it) ELSE cache[k]]

\* mutant: new_only forgets the in-stock test
ShouldAlert_IgnoreStock(alert_mode, it, cache) ==
  LET known == it.id \in DOMAIN cache
  IN IF alert_mode = "new_only"
     THEN ~known
     ELSE it.oos = FALSE /\ ((~known) \/ cache[it.id].oos = TRUE)

\* mutant: a third branch alerts every in-stock item under any_instock
ShouldAlert_AnyInStock(alert_mode, it, cache) ==
  LET known == it.id \in DOMAIN cache
  IN IF alert_mode = "new_only"
     THEN (~known) /\ it.oos = FALSE
     ELSE IF alert_mode = "any_instock"
     THEN it.oos = FALSE
     ELSE it.oos = FALSE /\ ((~known) \/ cache[it.id].oos = TRUE)

\* mutant: the fallback branch forgets the previously-out-of-stock case
ShouldAlert_NoRestock(alert_mode, it, cache) ==
  LET known == it.id \in DOMAIN cache
  IN (~known) /\ it.oos = FALSE

ShouldAlert(alert_mode, it, cache) ==
  LET known == it.id \in DOMAIN cache
  IN IF alert_mode = "new_only"
     THEN (~known) /\ it.oos = FALSE
     ELSE it.oos = FALSE /\ ((~known) \/ cache[it.id].oos = TRUE)

RECURSIVE BuildLoop(_, _, _, _)
BuildLoop(alert_mode, items, cache, notifications) ==
  IF items = <<>> THEN <<notifications, cache>>
  ELSE LET it == Head(items)
       IN BuildLoop(alert_mode, Tail(items), CachePut(cache, it),
                    IF ShouldAlert(alert_mode, it, cache)
                    THEN Append(notifications, it) ELSE notifications)

\* mutant: the next snapshot is built from an empty dict (full replace)
build_alerts_Replace(alert_mode, items, cache) ==
  <<BuildLoop(alert_mode, items, cache, <<>>)[1],
    BuildLoop(alert_mode, items, EmptyMap, <<>>)[2]>>

build_alerts(alert_mode, items, cache) == BuildLoop(alert_mode, items, cache, <<>>)

\* ----------------------------------------------------------------- state
VARIABLES
  ALERT_MODE,     \* configuration, fixed for the process lifetime
  CHAT_ID,        \* configuration: "" when TELEGRAM_CHAT_ID is unset
  file,           \* seen.json
  clock,          \* wall clock, minutes
  pc,             \* position of main()
  updates,        \* updates of the current poll not yet handled
  upd,            \* the update being handled (loop variable)
  now,            \* main(): now
  last_scan_ts,   \* main(): last_scan_ts
  cache,          \* main(): cache of the auto-scan
  items,          \* main(): items of the auto-scan
  notifications,  \* main(): notifications of the auto-scan
  scan_error,     \* the except clause of the auto-scan ran in this iteration
  cn,             \* frame of check_now: position and locals
  sent,           \* Telegram calls issued while handling the current update / auto-scan
  delivery_failed, \* some sendMessage of the current handler failed (swallowed)
  elements        \* scrape_once(): elements = cards.all(), when the card loop is run on its own

vars == <<ALERT_MODE, CHAT_ID, file, clock, pc, updates, upd, now,
          last_scan_ts, cache, items, notifications, scan_error, cn, sent,
          delivery_failed, elements>>

config == <<ALERT_MODE, CHAT_ID>>
scan_locals == <<cache, items, notifications>>

NoFrame == [pc |-> "none", chat_id |-> "", clear_cache |-> FALSE,
            cache |-> EmptyMap, items |-> <<>>, notifications |-> <<>>]

Msg(kind, to, total, instock, its) ==
  [kind |-> kind, to |-> to, total |-> total, instock |-> instock, items |-> its]

TextMsg(kind, to) == Msg(kind, to, 0, 0, <<>>)

InStockCount(its) == Cardinality({i \in 1..Len(its) : ~its[i].oos})

\* notify(notifications, chat_id): the messages it sends
notify(notifs, chat_id) ==
  IF notifs = <<>>
  THEN <<TextMsg("no_items_in_stock", chat_id)>>
  ELSE <<Msg("alert", chat_id, 0, 0, SubSeq(notifs, 1, Min(Len(notifs), ALERT_CAP)))>>

send_menu(chat_id) == <<TextMsg("menu", chat_id)>>

StartClock == SCAN_INTERVAL_MIN + 1
HalfInterval == (SCAN_INTERVAL_MIN + 1) \div 2

Init ==
  /\ ALERT_MODE \in Modes
  /\ CHAT_ID \in {"", "default"}
  /\ file = AbsentFile
  /\ clock = StartClock
  /\ pc = "start"
  /\ updates = <<>>
  /\ upd = "none"
  /\ now = 0
  /\ last_scan_ts = 0
  /\ cache = EmptyMap
  /\ items = <<>>
  /\ notifications = <<>>
  /\ scan_error = FALSE
  /\ cn = NoFrame
  /\ sent = <<>>
  /\ delivery_failed = FALSE
  /\ elements = <<>>

\* ------------------------------------------------------------- messaging
\* send_telegram / answer_callback: the call is issued; a transport error
\* is caught inside the helper and only printed.
Deliver(msgs) ==
  /\ sent' = sent \o msgs
  /\ \E ok \in BOOLEAN : delivery_failed' = (delivery_failed \/ (msgs # <<>> /\ ~ok))

DeliverFresh(msgs) ==
  /\ sent' = msgs
  /\ \E ok \in BOOLEAN : delivery_failed' = (msgs # <<>> /\ ~ok)

\* ------------------------------------------------------------- check_now
IsRefresh(u) == u \in {"cb_refresh", "msg_refresh"}
IsButton(u) == u \in {"cb_check", "cb_refresh", "cb_unknown"}
IsScanCommand(u) == u \in {"cb_check", "cb_refresh", "msg_check", "msg_refresh"}

NewFrame(chat_id, clear_cache) ==
  [pc |-> "clear", chat_id |-> chat_id, clear_cache |-> clear_cache,
   cache |-> EmptyMap, items |-> <<>>, notifications |-> <<>>]

\* if clear_cache and CACHE_PATH.exists(): try unlink, except pass
CnClear ==
  /\ cn.pc = "clear"
  /\ IF cn.clear_cache /\ file.state # "absent"
     THEN file' \in {AbsentFile, file}
     ELSE file' = file
  /\ cn' = [cn EXCEPT !.pc = "load"]
  /\ UNCHANGED <<config, elements, clock, pc, updates, upd, now, last_scan_ts,
                 scan_locals, scan_error, sent, delivery_failed>>

CnLoad ==
  /\ cn.pc = "load"
  /\ cn' = [cn EXCEPT !.pc = "fetch", !.cache = load_cache(file)]
  /\ UNCHANGED <<config, elements, file, clock, pc, updates, upd, now, last_scan_ts,
                 scan_locals, scan_error, sent, delivery_failed>>

BlockedReport(chat_id) == <<TextMsg("blocked", chat_id)>>

\* items = scrape_once(); total == 0 sends the blocked hint and returns
CnFetch ==
  /\ cn.pc = "fetch"
  /\ \E res \in ScrapeResults :
       IF Len(res) = 0
       THEN /\ cn' = [cn EXCEPT !.pc = "done", !.items = res]
            /\ Deliver(BlockedReport(cn.chat_id))
       ELSE /\ cn' = [cn EXCEPT !.pc = "diff", !.items = res]
            /\ UNCHANGED <<sent, delivery_failed>>
  /\ UNCHANGED <<config, elements, file, clock, pc, updates, upd, now, last_scan_ts,
                 scan_locals, scan_error>>

\* Where an exception raised inside check_now leaves main(): no handler
\* encloses the calls at lines 351-372.
CommandScanRaises == "crashed"

\* scrape_once raises (browser launch / context close outside its try)
CnFetchRaises ==
  /\ cn.pc = "fetch"
  /\ cn' = [cn EXCEPT !.pc = "raised"]
  /\ pc' = CommandScanRaises
  /\ UNCHANGED <<config, elements, file, clock, updates, upd, now, last_scan_ts,
                 scan_locals, scan_error, sent, delivery_failed>>

CnDiff ==
  /\ cn.pc = "diff"
  /\ LET r == build_alerts(ALERT_MODE, cn.items, cn.cache)
     IN cn' = [cn EXCEPT !.pc = "save", !.notifications = r[1], !.cache = r[2]]
  /\ UNCHANGED <<config, elements, file, clock, pc, updates, upd, now, last_scan_ts,
                 scan_locals, scan_error, sent, delivery_failed>>

CnSave ==
  /\ cn.pc = "save"
  /\ file' = SaveOk(cn.cache)
  /\ cn' = [cn EXCEPT !.pc = "report"]
  /\ UNCHANGED <<config, elements, clock, pc, updates, upd, now, last_scan_ts,
                 scan_locals, scan_error, sent, delivery_failed>>

CnSaveRaises ==
  /\ cn.pc = "save"
  /\ file' \in SaveFailures(file)
  /\ cn' = [cn EXCEPT !.pc = "raised"]
  /\ pc' = CommandScanRaises
  /\ UNCHANGED <<config, elements, clock, updates, upd, now, last_scan_ts,
                 scan_locals, scan_error, sent, delivery_failed>>

\* mutant: the report lists every in-stock item instead of the alerts
CheckReport_Unfiltered(its, notifs, chat_id) ==
  <<Msg("summary", chat_id, Len(its), InStockCount(its), <<>>)>>
  \o (LET T(it) == ~it.oos
      IN IF SelectSeq(its, T) # <<>> THEN notify(SelectSeq(its, T), chat_id)
         ELSE <<TextMsg("no_new_items", chat_id)>>)

\* the summary line, then the alerts of build_alerts or the "nothing new" line
CheckReport(its, notifs, chat_id) ==
  <<Msg("summary", chat_id, Len(its), InStockCount(its), <<>>)>>
  \o (IF notifs # <<>> THEN notify(notifs, chat_id)
      ELSE <<TextMsg("no_new_items", chat_id)>>)

CnReport ==
  /\ cn.pc = "report"
  /\ Deliver(CheckReport(cn.items, cn.notifications, cn.chat_id))
  /\ cn' = [cn EXCEPT !.pc = "done"]
  /\ UNCHANGED <<config, elements, file, clock, pc, updates, upd, now, last_scan_ts,
                 scan_locals, scan_error>>

\* ------------------------------------------------------------------ main
Start ==
  /\ pc = "start"
  /\ pc' = "poll"
  /\ DeliverFresh(IF CHAT_ID # "" THEN send_menu(CHAT_ID) \o <<TextMsg("started", CHAT_ID)>>
                  ELSE <<>>)
  /\ UNCHANGED <<config, elements, file, clock, updates, upd, now, last_scan_ts,
                 scan_locals, scan_error, cn>>

\* updates = tg_get_updates(...): [] on error or when nothing is pending
Poll ==
  /\ pc = "poll"
  /\ updates' \in SeqsUpTo(UpdateKinds, MaxUpdates)
  /\ pc' = "dispatch"
  /\ UNCHANGED <<config, elements, file, clock, upd, now, last_scan_ts, scan_locals,
                 scan_error, cn, sent, delivery_failed>>

AckText(u) == IF u = "cb_check" THEN "ack_checking"
              ELSE IF u = "cb_refresh" THEN "ack_refreshing" ELSE "ack_unknown"

\* mutant: check_now is started on a background thread and main() goes on
EnterCheckNow_Background == "dispatch"

\* Position of main() once check_now has been entered
EnterCheckNow == "call"

\* mutant: answer_callback is issued only after check_now has returned
HandleButtonScan_AckLater ==
  /\ pc = "dispatch" /\ updates # <<>>
  /\ Head(updates) \in {"cb_check", "cb_refresh"}
  /\ upd' = Head(updates) /\ updates' = Tail(updates)
  /\ DeliverFresh(<<>>)
  /\ cn' = NewFrame(FROM_CHAT, IsRefresh(Head(updates)))
  /\ pc' = EnterCheckNow
  /\ UNCHANGED <<config, elements, file, clock, now, last_scan_ts, scan_locals, scan_error>>

\* button check / refresh: answer_callback, then check_now
HandleButtonScan ==
  /\ pc = "dispatch" /\ updates # <<>>
  /\ Head(updates) \in {"cb_check", "cb_refresh"}
  /\ upd' = Head(updates) /\ updates' = Tail(updates)
  /\ DeliverFresh(<<TextMsg(AckText(Head(updates)), FROM_CHAT)>>)
  /\ cn' = NewFrame(FROM_CHAT, IsRefresh(Head(updates)))
  /\ pc' = EnterCheckNow
  /\ UNCHANGED <<config, elements, file, clock, now, last_scan_ts, scan_locals, scan_error>>

\* mutant: an unknown token falls into the check branch
HandleButtonUnknown_Scans ==
  /\ pc = "dispatch" /\ updates # <<>>
  /\ Head(updates) = "cb_unknown"
  /\ upd' = Head(updates) /\ updates' = Tail(updates)
  /\ DeliverFresh(<<TextMsg(AckText(Head(updates)), FROM_CHAT)>>)
  /\ cn' = NewFrame(FROM_CHAT, FALSE)
  /\ pc' = EnterCheckNow
  /\ UNCHANGED <<config, elements, file, clock, now, last_scan_ts, scan_locals, scan_error>>

HandleButtonUnknown ==
  /\ pc = "dispatch" /\ updates # <<>>
  /\ Head(updates) = "cb_unknown"
  /\ upd' = Head(updates) /\ updates' = Tail(updates)
  /\ DeliverFresh(<<TextMsg(AckText(Head(updates)), FROM_CHAT)>>)
  /\ UNCHANGED <<config, elements, file, clock, pc, now, last_scan_ts, scan_locals,
                 scan_error, cn>>

HandleStart ==
  /\ pc = "dispatch" /\ updates # <<>>
  /\ Head(updates) = "msg_start"
  /\ upd' = Head(updates) /\ updates' = Tail(updates)
  /\ DeliverFresh(<<TextMsg("welcome", FROM_CHAT)>> \o send_menu(FROM_CHAT))
  /\ UNCHANGED <<config, elements, file, clock, pc, now, last_scan_ts, scan_locals,
                 scan_error, cn>>

\* text /check, check, /refresh, refresh: check_now without acknowledgement
HandleTextScan ==
  /\ pc = "dispatch" /\ updates # <<>>
  /\ Head(updates) \in {"msg_check", "msg_refresh"}
  /\ upd' = Head(updates) /\ updates' = Tail(updates)
  /\ DeliverFresh(<<>>)
  /\ cn' = NewFrame(FROM_CHAT, IsRefresh(Head(updates)))
  /\ pc' = EnterCheckNow
  /\ UNCHANGED <<config, elements, file, clock, now, last_scan_ts, scan_locals, scan_error>>

HandleOtherText ==
  /\ pc = "dispatch" /\ updates # <<>>
  /\ Head(updates) = "msg_other"
  /\ upd' = Head(updates) /\ updates' = Tail(updates)
  /\ DeliverFresh(send_menu(FROM_CHAT))
  /\ UNCHANGED <<config, elements, file, clock, pc, now, last_scan_ts, scan_locals,
                 scan_error, cn>>

\* check_now returned; the button branches then send the menu
CheckNowReturns ==
  /\ pc = "call" /\ cn.pc = "done"
  /\ cn' = NoFrame
  /\ Deliver(IF IsButton(upd) THEN send_menu(FROM_CHAT) ELSE <<>>)
  /\ pc' = "dispatch"
  /\ UNCHANGED <<config, elements, file, clock, updates, upd, now, last_scan_ts,
                 scan_locals, scan_error>>

TimerDue(t, last) == t - last > SCAN_INTERVAL_MIN

\* the for loop is exhausted: now = time.time() and the interval test
TimerCheck ==
  /\ pc = "dispatch" /\ updates = <<>>
  /\ now' = clock
  /\ upd' = "none"
  /\ sent' = <<>> /\ delivery_failed' = FALSE
  /\ pc' = IF TimerDue(clock, last_scan_ts) THEN "ss_load" ELSE "sleep"
  /\ UNCHANGED <<config, elements, file, clock, updates, last_scan_ts, scan_locals,
                 scan_error, cn>>

SsLoad ==
  /\ pc = "ss_load"
  /\ cache' = load_cache(file)
  /\ pc' = "ss_fetch"
  /\ UNCHANGED <<config, elements, file, clock, updates, upd, now, last_scan_ts, items,
                 notifications, scan_error, cn, sent, delivery_failed>>

SsFetch ==
  /\ pc = "ss_fetch"
  /\ items' \in ScrapeResults
  /\ pc' = "ss_diff"
  /\ UNCHANGED <<config, elements, file, clock, updates, upd, now, last_scan_ts, cache,
                 notifications, scan_error, cn, sent, delivery_failed>>

\* mutant: the try/except around the auto-scan is missing
AutoScanRaises_Uncaught == "crashed"

\* Where an exception raised inside the try block of the auto-scan goes:
\* except Exception prints it and falls through to last_scan_ts = now.
AutoScanRaises == "ss_stamp"

SsFetchRaises ==
  /\ pc = "ss_fetch"
  /\ scan_error' = TRUE
  /\ pc' = AutoScanRaises
  /\ UNCHANGED <<config, elements, file, clock, updates, upd, now, last_scan_ts,
                 scan_locals, cn, sent, delivery_failed>>

SsDiff ==
  /\ pc = "ss_diff"
  /\ LET r == build_alerts(ALERT_MODE, items, cache)
     IN notifications' = r[1] /\ cache' = r[2]
  /\ pc' = "ss_save"
  /\ UNCHANGED <<config, elements, file, clock, updates, upd, now, last_scan_ts, items,
                 scan_error, cn, sent, delivery_failed>>

\* mutant: the save_cache call of the auto-scan is missing
SsSave_Skipped ==
  /\ pc = "ss_save"
  /\ pc' = "ss_notify"
  /\ UNCHANGED <<config, elements, file, clock, updates, upd, now, last_scan_ts,
                 scan_locals, scan_error, cn, sent, delivery_failed>>

SsSave ==
  /\ pc = "ss_save"
  /\ file' = SaveOk(cache)
  /\ pc' = "ss_notify"
  /\ UNCHANGED <<config, elements, clock, updates, upd, now, last_scan_ts, scan_locals,
                 scan_error, cn, sent, delivery_failed>>

SsSaveRaises ==
  /\ pc = "ss_save"
  /\ file' \in SaveFailures(file)
  /\ scan_error' = TRUE
  /\ pc' = AutoScanRaises
  /\ UNCHANGED <<config, elements, clock, updates, upd, now, last_scan_ts, scan_locals,
                 cn, sent, delivery_failed>>

AutoScanReport(notifs, chat_id) ==
  IF notifs # <<>> /\ chat_id # "" THEN notify(notifs, chat_id) ELSE <<>>

SsNotify ==
  /\ pc = "ss_notify"
  /\ Deliver(AutoScanReport(notifications, CHAT_ID))
  /\ pc' = "ss_stamp"
  /\ UNCHANGED <<config, elements, file, clock, updates, upd, now, last_scan_ts,
                 scan_locals, scan_error, cn>>

\* Value of last_scan_ts after the auto-scan block, failed or not
StampAfterScan(failed, t, last) == t

\* last_scan_ts = now; the locals of the try block are dead from here on
SsStamp ==
  /\ pc = "ss_stamp"
  /\ last_scan_ts' = StampAfterScan(scan_error, now, last_scan_ts)
  /\ cache' = EmptyMap /\ items' = <<>> /\ notifications' = <<>>
  /\ pc' = "sleep"
  /\ UNCHANGED <<config, elements, file, clock, updates, upd, now, scan_error, cn, sent,
                 delivery_failed>>

\* time.sleep(2) and the next long poll: the clock moves on. The iteration
\* is over: now is reassigned before it is read again, and the record of
\* the except branch is cleared.
Sleep ==
  /\ pc = "sleep"
  /\ \E d \in {0, HalfInterval, 2 * HalfInterval} :
       /\ clock + d <= MaxClock
       /\ clock' = clock + d
  /\ now' = 0
  /\ scan_error' = FALSE
  /\ pc' = "poll"
  /\ UNCHANGED <<config, elements, file, updates, upd, last_scan_ts, scan_locals,
                 cn, sent, delivery_failed>>

Next ==
  \/ Start \/ Poll
  \/ HandleButtonScan \/ HandleButtonUnknown \/ HandleStart
  \/ HandleTextScan \/ HandleOtherText \/ CheckNowReturns
  \/ CnClear \/ CnLoad \/ CnFetch \/ CnFetchRaises \/ CnDiff
  \/ CnSave \/ CnSaveRaises \/ CnReport
  \/ TimerCheck
  \/ SsLoad \/ SsFetch \/ SsFetchRaises \/ SsDiff \/ SsSave \/ SsSaveRaises
  \/ SsNotify \/ SsStamp
  \/ Sleep

Spec == Init /\ [][Next]_vars

\* main() is one thread whose every call returns or raises: while a
\* statement is left to run, one runs.
FairSpec == Spec /\ WF_vars(Next)

\* ------------------------------------------- the card loop of scrape_once
\* scrape_once on its own: the page yields some cards, the loop over them
\* (seen_ids = set(), results = []) builds the result list.
ScrapeInit ==
  /\ ALERT_MODE \in Modes
  /\ CHAT_ID \in {"", "default"}
  /\ file = AbsentFile
  /\ clock = StartClock
  /\ pc = "scrape"
  /\ updates = <<>>
  /\ upd = "none"
  /\ now = 0
  /\ last_scan_ts = 0
  /\ cache = EmptyMap
  /\ items = <<>>
  /\ notifications = <<>>
  /\ scan_error = FALSE
  /\ cn = NoFrame
  /\ sent = <<>>
  /\ delivery_failed = FALSE
  /\ elements \in SeqsUpTo(Cards, MaxElements)

ScrapeLoop ==
  /\ pc = "scrape"
  /\ items' = ParseCards(elements, {}, <<>>)
  /\ pc' = "scraped"
  /\ UNCHANGED <<config, elements, file, clock, updates, upd, now,
                 last_scan_ts, cache, notifications, scan_error, cn, sent,
                 delivery_failed>>

ScrapeNext == ScrapeLoop

ScrapeSpec == ScrapeInit /\ [][ScrapeNext]_vars

\* ================================================================ claims
SsBody == {"ss_load", "ss_fetch", "ss_diff", "ss_save", "ss_notify"}
CnBody == {"clear", "load", "fetch", "diff", "save", "report"}

\* the diff step of the auto-scan / of check_now
SsDiffStep == pc = "ss_diff" /\ pc' = "ss_save"
CnDiffStep == cn.pc = "diff" /\ cn'.pc = "save"
\* the successful snapshot write of the auto-scan / of check_now
SsSaveStep == pc = "ss_save" /\ pc' = "ss_notify"
CnSaveStep == cn.pc = "save" /\ cn'.pc = "report"

InStockItems(its) == LET T(it) == ~it.oos IN SelectSeq(its, T)
Range(s) == {s[i] : i \in 1..Len(s)}

NewOnlyExpected(O, S) ==
  LET T(it) == it.id \notin DOMAIN S /\ ~it.oos IN SelectSeq(O, T)

RestockExpected(O, S) ==
  LET T(it) == ~it.oos /\ (it.id \notin DOMAIN S \/ S[it.id].oos)
  IN SelectSeq(O, T)

\* C1: under new_only, the notifications build_alerts returns for scan
\* result O and loaded snapshot S are exactly the items of O, in order,
\* whose id is not a key of S and which are in stock.
C1_NewOnlyExact ==
  [][ALERT_MODE = "new_only" =>
       /\ SsDiffStep => notifications' = NewOnlyExpected(items, cache)
       /\ CnDiffStep => cn'.notifications = NewOnlyExpected(cn.items, cn.cache)]_vars

\* a new_only diff of two in-stock items of which exactly one was known
C1_Witness ==
  /\ ALERT_MODE = "new_only" /\ pc = "ss_save"
  /\ Len(items) = 2 /\ Len(InStockItems(items)) = 2 /\ Len(notifications) = 1

\* C2 (as stated): under any_instock the notifications are exactly the
\* in-stock items of O, whatever the snapshot, on every scan.
C2_AnyInstockAll ==
  [][ALERT_MODE = "any_instock" =>
       /\ SsDiffStep => notifications' = InStockItems(items)
       /\ CnDiffStep => cn'.notifications = InStockItems(cn.items)]_vars

\* C2 (amended): any_instock takes the fallback branch of build_alerts: the
\* notifications are exactly the in-stock items of O whose id is not a key
\* of S or whose entry in S is out of stock.
C2_AnyInstockFallback ==
  [][ALERT_MODE = "any_instock" =>
       /\ SsDiffStep => notifications' = RestockExpected(items, cache)
       /\ CnDiffStep => cn'.notifications = RestockExpected(cn.items, cn.cache)]_vars

\* an any_instock diff that left an in-stock item of O out of the alerts
C2_Witness ==
  /\ ALERT_MODE = "any_instock" /\ pc = "ss_save"
  /\ InStockItems(items) # <<>> /\ notifications = <<>>

\* C3 (as stated): once a scan has written the snapshot, its key set is
\* exactly the ids of the scan result.
C3_ReplaceTotal ==
  /\ pc = "ss_notify" => DOMAIN file.data = Ids(items)
  /\ cn.pc = "report" => DOMAIN file.data = Ids(cn.items)

MergedInto(new, old, O) ==
  /\ new.state = "ok"
  /\ DOMAIN new.data = DOMAIN load_cache(old) \cup Ids(O)
  /\ \A i \in 1..Len(O) : new.data[O[i].id] = CacheEntry(O[i])
  /\ \A k \in DOMAIN load_cache(old) \ Ids(O) : new.data[k] = load_cache(old)[k]

\* C3 (amended): the snapshot write merges: the written key set is the union
\* of the keys persisted just before the write and the ids of O; ids of O
\* carry the scan's observation and every other id keeps its previous entry.
C3_SnapshotMerged ==
  [][/\ SsSaveStep => MergedInto(file', file, items)
     /\ CnSaveStep => MergedInto(file', file, cn.items)]_vars

\* a written snapshot that still holds an id absent from the scan result
C3_Witness ==
  /\ pc = "ss_notify" /\ items # <<>>
  /\ \E k \in DOMAIN file.data : k \notin Ids(items)

InStockOn(f, id) == f.state = "ok" /\ id \in DOMAIN f.data /\ ~f.data[id].oos

RestockDiff(O, S, notifs) ==
  /\ \A i \in 1..Len(O) :
       (O[i].id \in DOMAIN S /\ S[O[i].id].oos /\ ~O[i].oos)
         => Cardinality({j \in 1..Len(notifs) : notifs[j].id = O[i].id}) = 1
  /\ \A j \in 1..Len(notifs) :
       ~(notifs[j].id \in DOMAIN S /\ ~S[notifs[j].id].oos)

C5_Idempotent ==
  ALERT_MODE \in {"new_only", "restock"} =>
    /\ pc = "ss_save" =>
         build_alerts(ALERT_MODE, items, cache) = <<(<<>>), cache>>
    /\ cn.pc = "save" =>
         build_alerts(ALERT_MODE, cn.items, cn.cache) = <<(<<>>), cn.cache>>

\* a first scan that did alert, whose repetition must stay silent
C5_Witness ==
  /\ ALERT_MODE \in {"new_only", "restock"}
  /\ cn.pc = "save" /\ cn.notifications # <<>>

\* C6: at most one scan body is in progress: while check_now runs, main()
\* waits at the call and is not inside the auto-scan; the snapshot a scan
\* loaded is still the persisted one until that scan writes, and what it
\* wrote is the complete result of that one scan.
C6_ScansSerialized ==
  /\ cn.pc \in CnBody => pc = "call"
  /\ ~(cn.pc \in CnBody /\ pc \in SsBody)
  /\ cn.pc \in {"fetch", "diff"} => cn.cache = load_cache(file)
  /\ pc \in {"ss_fetch", "ss_diff"} => cache = load_cache(file)
  /\ cn.pc = "report" => file = OkFile(cn.cache)
  /\ pc = "ss_notify" => file = OkFile(cache)

\* a command-triggered scan about to write while the timer is already due
C6_Witness ==
  /\ cn.pc = "save" /\ last_scan_ts > 0 /\ TimerDue(clock, last_scan_ts)
  /\ file.state = "ok"

\* C7 (as stated): a failed auto-scan does not advance last_scan_ts: when the
\* iteration reaches its sleep the timer condition still holds, so the next
\* iteration retries the scan.
C7_FailedScanStaysDue ==
  (scan_error /\ pc = "sleep") => TimerDue(now, last_scan_ts)

\* C8 (as stated): a failure of the fetch of a command-triggered scan never
\* terminates main().
C8_CommandScanSurvivesFetchFailure ==
  [][cn.pc = "fetch" => pc' # "crashed"]_vars

\* C9: whatever is raised inside the auto-scan, main() stays in the scan or
\* goes to the statement after the except clause, and from there to the
\* sleep and the next poll; it never terminates.
C9_AutoScanFailureCaught ==
  [][/\ pc \in SsBody => pc' \in SsBody \cup {"ss_stamp"}
     /\ pc = "ss_stamp" => pc' = "sleep"
     /\ pc = "sleep" => pc' = "poll"]_vars

\* an auto-scan failed and the loop has reached the sleep that ends the iteration
C9_Witness == scan_error /\ pc = "sleep"

\* the items listed by the alert message among msgs
Listed(msgs) ==
  LET A(m) == m.kind = "alert"
  IN IF SelectSeq(msgs, A) = <<>> THEN <<>> ELSE SelectSeq(msgs, A)[1].items

\* C10 (as stated): the result of a command-triggered scan lists all items
\* that are in stock in that scan.
C10_ReportListsAllInStock ==
  cn.pc = "done" => Listed(sent) = InStockItems(cn.items)

\* C10 (amended): when check_now returns after parsing at least one item,
\* the requesting chat was sent a summary with the number of parsed items
\* and the number of in-stock items of that scan, and the items listed are
\* the notifications of build_alerts (at most ALERT_CAP), with the "nothing
\* new" line when there are none.
C10_ReportCountsAllListsAlerts ==
  (cn.pc = "done" /\ cn.items # <<>>) =>
    /\ Msg("summary", cn.chat_id, Len(cn.items),
           Len(InStockItems(cn.items)), <<>>) \in Range(sent)
    /\ Listed(sent) = SubSeq(cn.notifications, 1, Min(Len(cn.notifications), ALERT_CAP))
    /\ cn.notifications = <<>> <=> TextMsg("no_new_items", cn.chat_id) \in Range(sent)

\* a command scan that found an item in stock and listed none
C10_Witness ==
  /\ cn.pc = "done" /\ InStockItems(cn.items) # <<>> /\ Listed(sent) = <<>>

HasKind(msgs, kind) == \E i \in 1..Len(msgs) : msgs[i].kind = kind

\* C11 (as stated): every scan whose fetch returns no item, timer-triggered
\* or command-triggered, sends the "no items in stock" message.
C11_ZeroItemScanReported ==
  /\ (pc = "ss_stamp" /\ ~scan_error /\ items = <<>>)
       => HasKind(sent, "no_items_in_stock")
  /\ (cn.pc = "done" /\ cn.items = <<>>)
       => HasKind(sent, "no_items_in_stock")

\* C12 (as stated): a refresh scan loads an empty snapshot: its diff runs
\* against no previous entry.
C12_RefreshDiffsAgainstEmpty ==
  (cn.clear_cache /\ cn.pc \in {"fetch", "diff"}) => cn.cache = EmptyMap

NoScanUpdates == {"msg_start", "msg_other", "cb_unknown"}

NoScanReply(u) ==
  IF u = "msg_start" THEN <<TextMsg("welcome", FROM_CHAT), TextMsg("menu", FROM_CHAT)>>
  ELSE IF u = "msg_other" THEN <<TextMsg("menu", FROM_CHAT)>>
  ELSE <<TextMsg("ack_unknown", FROM_CHAT)>>

\* C13: the dispatch of /start, of an unknown text and of an unknown button
\* token does not enter check_now, leaves seen.json and last_scan_ts as they
\* are and stays in the update loop; /start and unknown text send the menu
\* (after the welcome for /start), an unknown token only the "Unknown
\* action" acknowledgement.
C13_NoScanDispatch ==
  [][(pc = "dispatch" /\ updates # <<>> /\ Head(updates) \in NoScanUpdates) =>
       /\ file' = file /\ last_scan_ts' = last_scan_ts
       /\ cn' = NoFrame /\ pc' = "dispatch"
       /\ sent' = NoScanReply(Head(updates))]_vars

\* an unknown token was dispatched while a snapshot is persisted
C13_Witness ==
  /\ upd = "cb_unknown" /\ pc = "dispatch" /\ file.state = "ok"
  /\ last_scan_ts > 0 /\ sent = NoScanReply("cb_unknown")

\* C14: while the check_now started by a check / refresh button is running,
\* and in particular when its fetch begins, the first call issued for that
\* update is the answer_callback for it.
C14_AckBeforeFetch ==
  (upd \in {"cb_check", "cb_refresh"} /\ cn.pc \in CnBody) =>
     /\ Len(sent) >= 1
     /\ sent[1] = TextMsg(AckText(upd), FROM_CHAT)

\* the fetch of a button-triggered refresh is about to begin
C14_Witness == upd = "cb_refresh" /\ cn.pc = "fetch"

\* C16 (as stated): a snapshot write that raises leaves seen.json as it was,
\* and the file is never a truncated write.
C16_WriteAtomic ==
  [][/\ file'.state # "partial"
     /\ (pc = "ss_save" /\ pc' # "ss_notify") => file' = file
     /\ (cn.pc = "save" /\ cn'.pc = "raised") => file' = file]_vars

Reflects(f, O) ==
  /\ f.state = "ok"
  /\ \A i \in 1..Len(O) : O[i].id \in DOMAIN f.data /\ f.data[O[i].id] = CacheEntry(O[i])

\* C17: once a scan with a non-empty result has issued its notifications,
\* seen.json holds that scan's observation of every item, whether or not a
\* delivery failed; a step that sends leaves the file alone.
C17_DeliveryIndependentOfSnapshot ==
  [][/\ (pc' = "ss_stamp" /\ ~scan_error' /\ items' # <<>>) => Reflects(file', items')
     /\ (cn'.pc = "done" /\ cn'.items # <<>>) => Reflects(file', cn'.items)
     /\ sent' # sent => file' = file]_vars

\* an auto-scan sent its alert, the delivery failed, the snapshot is written
C17_Witness ==
  /\ pc = "ss_stamp" /\ ~scan_error /\ notifications # <<>>
  /\ delivery_failed /\ HasKind(sent, "alert") /\ Reflects(file, items)

\* C20 (as stated): a scan that fetched no item and is not a refresh leaves
\* the contents of the persisted snapshot as they were.
C20_ZeroItemScanKeepsSnapshot ==
  [][/\ (pc \in SsBody /\ items = <<>>) => load_cache(file') = load_cache(file)
     /\ (cn.pc \in CnBody /\ ~cn.clear_cache /\ cn.items = <<>>)
          => load_cache(file') = load_cache(file)]_vars

\* index of the first card of the page that normalizes to id
FirstCard(id) ==
  CHOOSE k \in 1..Len(elements) :
    Pid(elements[k]) = id /\ \A m \in 1..(k - 1) : Pid(elements[m]) # id

\* C18: the result list of the card loop has pairwise distinct, non-empty
\* ids; it holds one item for every non-empty id found on the page, built
\* from the first card with that id, and the items are in the order of
\* those first cards.
C18_FirstWinsInOrder ==
  pc = "scraped" =>
    /\ \A i, j \in 1..Len(items) : i # j => items[i].id # items[j].id
    /\ \A i \in 1..Len(items) : items[i].id # ""
    /\ Ids(items) = {Pid(elements[k]) : k \in 1..Len(elements)} \ {""}
    /\ \A i \in 1..Len(items) : items[i] = MakeItem(elements[FirstCard(items[i].id)])
    /\ \A i, j \in 1..Len(items) :
         i < j => FirstCard(items[i].id) < FirstCard(items[j].id)

\* three cards: the first and the last normalize to the same id with
\* different stock flags, a card with another id lies between them
C18_Witness ==
  /\ pc = "scraped" /\ Len(elements) = 3 /\ Len(items) = 2
  /\ Pid(elements[1]) = Pid(elements[3])
  /\ elements[1].oos # elements[3].oos

\* C15 (as stated): whenever the interval has elapsed and the auto-scan is
\* not already running, the auto-scan is eventually started, and every
\* update returned by a poll is eventually taken by the dispatch loop.
C15_NoStarvation ==
  /\ [](((pc \notin SsBody \cup {"ss_stamp"}) /\ TimerDue(clock, last_scan_ts))
          => <>(pc = "ss_load"))
  /\ [](updates # <<>> => <>(updates = <<>>))

\* C19: under new_only, (a) a diff returns a notification only for an id
\* that is not a key of the persisted snapshot, (b) when an alert is sent
\* every id it lists is a key of the persisted snapshot, and (c) a key
\* leaves the persisted snapshot only by the unlink of a refresh or by a
\* failed write; so between refreshes and write failures no id is alerted
\* twice, whether it disappears, goes out of stock or comes back.
C19_NewOnlyAtMostOnce ==
  [][ALERT_MODE = "new_only" =>
       /\ SsDiffStep => \A j \in 1..Len(notifications') :
                          notifications'[j].id \notin DOMAIN load_cache(file)
       /\ CnDiffStep => \A j \in 1..Len(cn'.notifications) :
                          cn'.notifications[j].id \notin DOMAIN load_cache(file)
       /\ (HasKind(sent', "alert") /\ sent' # sent)
            => \A j \in 1..Len(Listed(sent')) :
                 Listed(sent')[j].id \in DOMAIN load_cache(file')
       /\ \A id \in DOMAIN load_cache(file) :
            id \notin DOMAIN load_cache(file') =>
               \/ cn.pc = "clear" /\ cn.clear_cache
               \/ file'.state = "partial"]_vars

\* a new_only scan finds in stock an id the snapshot holds as out of stock,
\* next to an id the snapshot holds that the scan did not find: no alert
C19_Witness ==
  /\ ALERT_MODE = "new_only" /\ pc = "ss_save" /\ file.state = "ok"
  /\ notifications = <<>> /\ Len(items) = 1
  /\ ~items[1].oos /\ items[1].id \in DOMAIN file.data
  /\ file.data[items[1].id].oos
  /\ \E k \in DOMAIN file.data : k \notin Ids(items)
====
